---- MODULE Spec2Model ----
(***************************************************************************)
(* Model of the log parsing / event correlation code of ray_plots:         *)
(*   src/log_analyzer.py  parse_log_files (process_file, process_events,   *)
(*                        store_event), calculate_time_diffs_with_stats    *)
(*   src/plot.py          calculate_latencies                              *)
(* Text is modelled as sequences of one-character strings, so that the     *)
(* regular expression, strptime and str.split are computed, not assumed.   *)
(***************************************************************************)
EXTENDS Integers, Sequences, FiniteSets, TLC

\* ------------------------------------------------------------------ bounds
MaxLines == 3        \* lines scanned in one parse_log_files run
MaxFiles == 2        \* files walked in one parse_log_files run
MaxFullLines == 2    \* lines scanned in one run of the round-trip specification
MaxEntries == 4      \* entries handed to calculate_latencies
MaxIntervals == 3    \* intervals handed to calculate_throughput

\* ------------------------------------------------------------- characters
\* Python's None; a value that may be None is None or the one-element <<v>>
None == <<>>

Some(v) == <<v>>

ValueOf(o) == o[1]

Digits == {"0", "1", "2", "3", "4", "5", "6", "7", "8", "9"}

DigitChars == <<"0", "1", "2", "3", "4", "5", "6", "7", "8", "9">>

\* \w of the re module, over the alphabet the model's lines are written in
WordChars == Digits \cup {"A", "B", "E", "F", "I", "N", "O", "Q", "R", "W", "r", "_"}

\* the characters str.strip() and str.split() treat as blank
Whitespace == {" ", "\t", "\n"}

DigitVal(c) == CHOOSE d \in 0..9 : DigitChars[d + 1] = c

\* int() of a run of decimal digits
RECURSIVE ToInt(_)
ToInt(s) ==
    IF s = <<>> THEN 0
    ELSE 10 * ToInt(SubSeq(s, 1, Len(s) - 1)) + DigitVal(s[Len(s)])

\* ----------------------------------------------------- the full-record regex
\* (\d{4}-\d{2}-\d{2} \d{2}:\d{2}:\d{2},\d{3}) : "d" stands for \d
TsShape ==
    <<"d", "d", "d", "d", "-", "d", "d", "-", "d", "d", " ",
      "d", "d", ":", "d", "d", ":", "d", "d", ",", "d", "d", "d">>

TsLen == 23

Sep == <<" ", "-", " ">>

MatchesTsShape(line) ==
    /\ Len(line) >= TsLen
    /\ \A i \in 1..TsLen :
          IF TsShape[i] = "d" THEN line[i] \in Digits ELSE line[i] = TsShape[i]

HasSepAt(line, i) ==
    /\ Len(line) >= i + 2
    /\ SubSeq(line, i, i + 2) = Sep

\* last index of the greedy \w+ run that starts at i (i - 1 when the run is empty)
RECURSIVE WordRunEnd(_, _)
WordRunEnd(line, i) ==
    IF i <= Len(line) /\ line[i] \in WordChars THEN WordRunEnd(line, i + 1) ELSE i - 1

\* last index of the greedy .+ run that starts at i: '.' matches all but a newline
RECURSIVE DotRunEnd(_, _)
DotRunEnd(line, i) ==
    IF i <= Len(line) /\ line[i] # "\n" THEN DotRunEnd(line, i + 1) ELSE i - 1

\* full_line_match with the payload group trimmed of blanks
full_line_match_trimmed(line) ==
    IF ~ (MatchesTsShape(line) /\ HasSepAt(line, TsLen + 1)) THEN <<>>
    ELSE LET ls == TsLen + 4
             le == WordRunEnd(line, ls)
         IN  IF le < ls \/ ~ HasSepAt(line, le + 1) THEN <<>>
             ELSE LET ps == le + 4
                      pe == DotRunEnd(line, ps)
                      payload == SubSeq(line, ps, pe)
                      IsBlank(c) == c \in {" ", "\t"}
                      first == CHOOSE i \in 1..(Len(payload) + 1) :
                                  /\ i = Len(payload) + 1 \/ ~ IsBlank(payload[i])
                                  /\ \A j \in 1..(i - 1) : IsBlank(payload[j])
                      last == CHOOSE i \in 0..Len(payload) :
                                  /\ i = 0 \/ ~ IsBlank(payload[i])
                                  /\ \A j \in (i + 1)..Len(payload) : IsBlank(payload[j])
                  IN  IF pe < ps THEN <<>>
                      ELSE <<[timestamp_str |-> SubSeq(line, 1, TsLen),
                              log_level |-> SubSeq(line, ls, le),
                              event_info |-> SubSeq(payload, first, last)]>>

\* re.match(r'(ts) - (\w+) - (.+)', line): None, or Some of the three groups
full_line_match(line) ==
    IF ~ (MatchesTsShape(line) /\ HasSepAt(line, TsLen + 1)) THEN None
    ELSE LET ls == TsLen + 4
             le == WordRunEnd(line, ls)
         IN  IF le < ls \/ ~ HasSepAt(line, le + 1) THEN None
             ELSE LET ps == le + 4
                      pe == DotRunEnd(line, ps)
                  IN  IF pe < ps THEN None
                      ELSE Some([timestamp_str |-> SubSeq(line, 1, TsLen),
                                 log_level |-> SubSeq(line, ls, le),
                                 event_info |-> SubSeq(line, ps, pe)])

\* ----------------------------------------------------------------- strptime
IsLeap(y) == (y % 4 = 0 /\ y % 100 # 0) \/ y % 400 = 0

DaysInMonth(y, m) ==
    IF m = 2 THEN (IF IsLeap(y) THEN 29 ELSE 28)
    ELSE IF m \in {4, 6, 9, 11} THEN 30 ELSE 31

\* datetime.strptime(s, '%Y-%m-%d %H:%M:%S,%f') on a string of the regex's shape:
\* Some datetime, or None where it raises ValueError
strptime(s) ==
    LET y  == ToInt(SubSeq(s, 1, 4))
        mo == ToInt(SubSeq(s, 6, 7))
        d  == ToInt(SubSeq(s, 9, 10))
        h  == ToInt(SubSeq(s, 12, 13))
        mi == ToInt(SubSeq(s, 15, 16))
        sec == ToInt(SubSeq(s, 18, 19))
        ms == ToInt(SubSeq(s, 21, 23))
    IN  IF /\ y >= 1
           /\ mo \in 1..12
           /\ d >= 1 /\ d <= DaysInMonth(y, mo)
           /\ h <= 23 /\ mi <= 59 /\ sec <= 59
        THEN Some([year |-> y, month |-> mo, day |-> d, hour |-> h, minute |-> mi,
                   second |-> sec, microsecond |-> ms * 1000])
        ELSE None

\* ---------------------------------------------------------------- str.split
RECURSIVE lstrip(_)
lstrip(s) == IF s # <<>> /\ Head(s) \in Whitespace THEN lstrip(Tail(s)) ELSE s

RECURSIVE rstrip(_)
rstrip(s) ==
    IF s # <<>> /\ s[Len(s)] \in Whitespace THEN rstrip(SubSeq(s, 1, Len(s) - 1)) ELSE s

strip(s) == rstrip(lstrip(s))

\* last index of the run of non-blank characters that starts at i
RECURSIVE TokenEnd(_, _)
TokenEnd(s, i) ==
    IF i <= Len(s) /\ s[i] \notin Whitespace THEN TokenEnd(s, i + 1) ELSE i - 1

\* s.split(): the maximal runs of non-blank characters, in order
RECURSIVE split(_)
split(s) ==
    LET t == lstrip(s)
    IN  IF t = <<>> THEN <<>>
        ELSE LET e == TokenEnd(t, 1)
             IN  <<SubSeq(t, 1, e)>> \o split(SubSeq(t, e + 1, Len(t)))

\* ------------------------------------------------------------ datetime values
\* datetime.toordinal(): days since 0001-01-01, that day being 1
DaysBeforeYear(y) ==
    (y - 1) * 365 + ((y - 1) \div 4) - ((y - 1) \div 100) + ((y - 1) \div 400)

RECURSIVE DaysBeforeMonth(_, _)
DaysBeforeMonth(y, m) ==
    IF m = 1 THEN 0 ELSE DaysBeforeMonth(y, m - 1) + DaysInMonth(y, m - 1)

toordinal(dt) == DaysBeforeYear(dt.year) + DaysBeforeMonth(dt.year, dt.month) + dt.day

MillisOfDay(dt) ==
    ((dt.hour * 60 + dt.minute) * 60 + dt.second) * 1000 + (dt.microsecond \div 1000)

\* (b - a).total_seconds(), in milliseconds (timestamps carry whole milliseconds)
total_seconds(b, a) ==
    (toordinal(b) - toordinal(a)) * 86400000 + (MillisOfDay(b) - MillisOfDay(a))

\* ------------------------------------------------------- text of the log lines
Pad2(n) == <<DigitChars[(n \div 10) + 1], DigitChars[(n % 10) + 1]>>

Pad3(n) == <<DigitChars[(n \div 100) + 1]>> \o Pad2(n % 100)

Pad4(n) == <<DigitChars[(n \div 1000) + 1]>> \o Pad3(n % 1000)

\* the text 'YYYY-MM-DD HH:MM:SS,mmm' of the fields f
FormatTs(f) ==
    Pad4(f.year) \o <<"-">> \o Pad2(f.month) \o <<"-">> \o Pad2(f.day) \o <<" ">>
    \o Pad2(f.hour) \o <<":">> \o Pad2(f.minute) \o <<":">> \o Pad2(f.second)
    \o <<",">> \o Pad3(f.ms)

Fields(y, mo, d, h, mi, s, ms) ==
    [year |-> y, month |-> mo, day |-> d, hour |-> h, minute |-> mi, second |-> s, ms |-> ms]

\* the datetime a valid instant written as fields denotes
Instant(f) ==
    [year |-> f.year, month |-> f.month, day |-> f.day, hour |-> f.hour,
     minute |-> f.minute, second |-> f.second, microsecond |-> f.ms * 1000]

T1 == Fields(2024, 2, 29, 23, 59, 59, 900)

T2 == Fields(2024, 3, 1, 0, 0, 0, 100)

T3 == Fields(2024, 3, 1, 0, 0, 1, 0)

\* of the textual shape, but no date: month 13
TBad == Fields(2024, 13, 1, 0, 0, 0, 0)

NL == <<"\n">>

INFO == <<"I", "N", "F", "O">>

WARN == <<"W", "A", "R", "N">>

\* TIMESTAMP + ' - ' + LEVEL + ' - ' + PAYLOAD, and the line terminator
FullLine(ts, level, payload) == ts \o Sep \o level \o Sep \o payload \o NL

\* the lines the scanned files are made of
LogLines ==
    { FullLine(FormatTs(T1), INFO, <<"A", " ", "r", "1">>),
      FullLine(FormatTs(T2), WARN, <<"B", " ", "r", "1", " ", "r", "2">>),
      FullLine(FormatTs(T3), INFO, <<" ", "A", " ", " ", "r", "2", " ">>),
      FullLine(FormatTs(TBad), INFO, <<"B", " ", "r", "2">>),
      <<"A", "\t", "r", "1", " ", "r", "2", "\n">>,
      <<"B">>,
      <<"\n">> }

\* -------------------------------------------------- parse_log_files: the store
\* The closure state of parse_log_files that process_events and store_event
\* update: request_data, the two counters they own, and the log of the calls
\* made to each of them (stores, calls). request_ids is the key order of the
\* request_data dict: a dict iterates in insertion order.
EmptyDict == <<>>

DictPut(d, k, v) == [x \in DOMAIN d \cup {k} |-> IF x = k THEN v ELSE d[x]]

\* store_event keeping the first timestamp of a pair (first write wins)
store_event_first_wins(st, event, request_id, timestamp) ==
    LET rd0 == IF request_id \in DOMAIN st.request_data THEN st.request_data
               ELSE DictPut(st.request_data, request_id, EmptyDict)
        seen == event \in DOMAIN rd0[request_id]
    IN  [st EXCEPT
           !.request_data = IF seen THEN rd0
                            ELSE DictPut(rd0, request_id,
                                         DictPut(rd0[request_id], event, timestamp)),
           !.request_ids = IF request_id \in DOMAIN st.request_data THEN @
                           ELSE Append(@, request_id),
           !.duplicate_count = IF seen THEN @ + 1 ELSE @,
           !.stores = Append(@, [event |-> event, request_id |-> request_id,
                                 timestamp |-> timestamp])]

store_event(st, event, request_id, timestamp) ==
    LET rd0 == IF request_id \in DOMAIN st.request_data THEN st.request_data
               ELSE DictPut(st.request_data, request_id, EmptyDict)
        dup == IF event \in DOMAIN rd0[request_id] THEN st.duplicate_count + 1
               ELSE st.duplicate_count
    IN  [st EXCEPT
           !.request_data = DictPut(rd0, request_id, DictPut(rd0[request_id], event, timestamp)),
           !.request_ids = IF request_id \in DOMAIN st.request_data THEN @
                           ELSE Append(@, request_id),
           !.duplicate_count = dup,
           !.stores = Append(@, [event |-> event, request_id |-> request_id,
                                 timestamp |-> timestamp])]

\* StoreFrom stopping one id short of the end of event_parts
RECURSIVE StoreFrom_short(_, _, _, _)
StoreFrom_short(st, event_parts, i, timestamp) ==
    IF i >= Len(event_parts) THEN st
    ELSE LET s1 == store_event(st, event_parts[1], event_parts[i], timestamp)
         IN  StoreFrom_short([s1 EXCEPT !.successful_lines_parsed = @ + 1],
                             event_parts, i + 1, timestamp)

\* the loop "for i in range(1, len(event_parts))" of the batch branch
RECURSIVE StoreFrom(_, _, _, _)
StoreFrom(st, event_parts, i, timestamp) ==
    IF i > Len(event_parts) THEN st
    ELSE LET s1 == store_event(st, event_parts[1], event_parts[i], timestamp)
         IN  StoreFrom([s1 EXCEPT !.successful_lines_parsed = @ + 1],
                       event_parts, i + 1, timestamp)

\* process_events counting one success per line, not one per pair
process_events_counts_lines(st, event_info, timestamp, log_level, file_no, line_num) ==
    LET event_parts == split(strip(event_info))
        s0 == [st EXCEPT !.calls = Append(@, [event_info |-> event_info,
                                              timestamp |-> timestamp,
                                              log_level |-> log_level,
                                              file_no |-> file_no,
                                              line_num |-> line_num])]
    IN  IF Len(event_parts) = 2
        THEN LET s1 == store_event(s0, event_parts[1], event_parts[2], timestamp)
             IN  [s1 EXCEPT !.successful_lines_parsed = @ + 1]
        ELSE IF Len(event_parts) >= 1
        THEN [StoreFrom(s0, event_parts, 2, timestamp)
                 EXCEPT !.successful_lines_parsed = s0.successful_lines_parsed + 1]
        ELSE s0

\* the (event, request_id) pairs one payload yields, in the order they are stored
process_events(st, event_info, timestamp, log_level, file_no, line_num) ==
    LET event_parts == split(strip(event_info))
        s0 == [st EXCEPT !.calls = Append(@, [event_info |-> event_info,
                                              timestamp |-> timestamp,
                                              log_level |-> log_level,
                                              file_no |-> file_no,
                                              line_num |-> line_num])]
    IN  IF Len(event_parts) = 2
        THEN LET s1 == store_event(s0, event_parts[1], event_parts[2], timestamp)
             IN  [s1 EXCEPT !.successful_lines_parsed = @ + 1]
        ELSE IF Len(event_parts) >= 1
        THEN StoreFrom(s0, event_parts, 2, timestamp)
        ELSE s0

\* One iteration of the loop over the lines of a file. cx is the scan context:
\* last_timestamp, last_log_level (None or Some) and the closure state st.
\* process_line carrying the first full record of the file, not the latest
process_line_first_context(cx, line, file_no, line_num) ==
    LET m == full_line_match(line)
    IN  IF m # None
        THEN LET g == ValueOf(m)
                 ts == strptime(g.timestamp_str)
             IN  IF ts = None
                 THEN cx
                 ELSE [last_timestamp |-> IF cx.last_timestamp = None THEN ts
                                          ELSE cx.last_timestamp,
                       last_log_level |-> IF cx.last_log_level = None
                                          THEN Some(g.log_level)
                                          ELSE cx.last_log_level,
                       st |-> process_events(cx.st, g.event_info, ValueOf(ts),
                                             g.log_level, file_no, line_num)]
        ELSE IF cx.last_timestamp # None /\ cx.last_log_level # None
        THEN [cx EXCEPT !.st = process_events(cx.st, strip(line),
                                              ValueOf(cx.last_timestamp),
                                              ValueOf(cx.last_log_level),
                                              file_no, line_num)]
        ELSE cx

\* process_line forgetting the carried context at a timestamp that does not parse
process_line_clears_on_error(cx, line, file_no, line_num) ==
    LET m == full_line_match(line)
    IN  IF m # None
        THEN LET g == ValueOf(m)
                 ts == strptime(g.timestamp_str)
             IN  IF ts = None
                 THEN [cx EXCEPT !.last_timestamp = None, !.last_log_level = None]
                 ELSE [last_timestamp |-> ts,
                       last_log_level |-> Some(g.log_level),
                       st |-> process_events(cx.st, g.event_info, ValueOf(ts),
                                             g.log_level, file_no, line_num)]
        ELSE IF cx.last_timestamp # None /\ cx.last_log_level # None
        THEN [cx EXCEPT !.st = process_events(cx.st, strip(line),
                                              ValueOf(cx.last_timestamp),
                                              ValueOf(cx.last_log_level),
                                              file_no, line_num)]
        ELSE cx

process_line(cx, line, file_no, line_num) ==
    LET m == full_line_match(line)
    IN  IF m # None
        THEN LET g == ValueOf(m)
                 ts == strptime(g.timestamp_str)
             IN  IF ts = None
                 THEN cx
                 ELSE [last_timestamp |-> ts,
                       last_log_level |-> Some(g.log_level),
                       st |-> process_events(cx.st, g.event_info, ValueOf(ts),
                                             g.log_level, file_no, line_num)]
        ELSE IF cx.last_timestamp # None /\ cx.last_log_level # None
        THEN [cx EXCEPT !.st = process_events(cx.st, strip(line),
                                              ValueOf(cx.last_timestamp),
                                              ValueOf(cx.last_log_level),
                                              file_no, line_num)]
        ELSE cx

\* ------------------------------------------- calculate_time_diffs_with_stats
Abs(n) == IF n < 0 THEN -n ELSE n

RECURSIVE Gcd(_, _)
Gcd(a, b) == IF b = 0 THEN a ELSE Gcd(b, a % b)

\* the fraction n / d (d > 0) in lowest terms, as <<numerator, denominator>>
Rat(n, d) == LET g == Gcd(Abs(n), d) IN <<n \div g, d \div g>>

RECURSIVE SumSeq(_)
SumSeq(s) == IF s = <<>> THEN 0 ELSE Head(s) + SumSeq(Tail(s))

RECURSIVE SumSquares(_)
SumSquares(s) == IF s = <<>> THEN 0 ELSE Head(s) * Head(s) + SumSquares(Tail(s))

SeqMin(s) == CHOOSE x \in {s[i] : i \in DOMAIN s} : \A j \in DOMAIN s : x <= s[j]

SeqMax(s) == CHOOSE x \in {s[i] : i \in DOMAIN s} : \A j \in DOMAIN s : x >= s[j]

\* sorted(s): insertion of each element after the elements not greater than it
RECURSIVE InsertSorted(_, _)
InsertSorted(s, x) ==
    IF s = <<>> THEN <<x>>
    ELSE IF x < Head(s) THEN <<x>> \o s
    ELSE <<Head(s)>> \o InsertSorted(Tail(s), x)

RECURSIVE Sorted(_)
Sorted(s) ==
    IF s = <<>> THEN <<>> ELSE InsertSorted(Sorted(SubSeq(s, 1, Len(s) - 1)), s[Len(s)])

mean(s) == Rat(SumSeq(s), Len(s))

median(s) ==
    LET d == Sorted(s)
        n == Len(d)
    IN  IF n % 2 = 1 THEN Rat(d[(n \div 2) + 1], 1)
        ELSE Rat(d[n \div 2] + d[(n \div 2) + 1], 2)

\* statistics.stdev(s) is the square root of the sample variance
\* (n * sum(x^2) - sum(x)^2) / (n * (n - 1)); the model keeps the variance
stdev(s) ==
    LET n == Len(s)
    IN  [variance |-> Rat(n * SumSquares(s) - SumSeq(s) * SumSeq(s), n * (n - 1))]

\* the loop over request_data.items(): the qualifying ids, in dict order
RECURSIVE Qualifying(_, _, _, _)
Qualifying(request_data, ids, event1, event2) ==
    IF ids = <<>> THEN <<>>
    ELSE LET events == request_data[Head(ids)]
             rest == Qualifying(request_data, Tail(ids), event1, event2)
         IN  IF event1 \in DOMAIN events /\ event2 \in DOMAIN events
             THEN <<Head(ids)>> \o rest
             ELSE rest

\* time_diff taken from event2 to event1
time_diff_swapped(events, event1, event2) == total_seconds(events[event1], events[event2])

time_diff(events, event1, event2) == total_seconds(events[event2], events[event1])

\* calculate_time_diffs_with_stats asking for more than two samples for stdev
calculate_time_diffs_with_stats_late_stdev(request_data, ids, event1, event2) ==
    LET request_ids == Qualifying(request_data, ids, event1, event2)
        time_differences ==
            [i \in DOMAIN request_ids |->
                time_diff(request_data[request_ids[i]], event1, event2)]
        result == [time_differences |-> time_differences,
                   request_ids |-> request_ids,
                   count |-> Len(time_differences),
                   min |-> SeqMin(time_differences),
                   max |-> SeqMax(time_differences),
                   mean |-> mean(time_differences),
                   median |-> median(time_differences)]
    IN  IF time_differences = <<>> THEN EmptyDict
        ELSE IF Len(time_differences) > 2
        THEN DictPut(result, "stdev", stdev(time_differences))
        ELSE result

\* the returned dict, as a function of its keys; times are in milliseconds
calculate_time_diffs_with_stats(request_data, ids, event1, event2) ==
    LET request_ids == Qualifying(request_data, ids, event1, event2)
        time_differences ==
            [i \in DOMAIN request_ids |->
                time_diff(request_data[request_ids[i]], event1, event2)]
        result == [time_differences |-> time_differences,
                   request_ids |-> request_ids,
                   count |-> Len(time_differences),
                   min |-> SeqMin(time_differences),
                   max |-> SeqMax(time_differences),
                   mean |-> mean(time_differences),
                   median |-> median(time_differences)]
    IN  IF time_differences = <<>> THEN EmptyDict
        ELSE IF Len(time_differences) > 1
        THEN DictPut(result, "stdev", stdev(time_differences))
        ELSE result

\* ------------------------------------------------ state of both programs
VARIABLES
    pc,                       \* position of the run
    files,                    \* files[f]: the lines read so far from the f-th file
    last_timestamp,           \* process_file: None or Some datetime
    last_log_level,           \* process_file: None or Some level
    request_data,             \* request id -> (event name -> datetime)
    request_ids,              \* key order of request_data
    total_lines_processed,
    successful_lines_parsed,
    duplicate_count,
    stores,                   \* the calls of store_event, in order
    calls,                    \* the calls of process_events, in order
    query,                    \* (event1, event2) of the statistics asked for
    result,                   \* what calculate_time_diffs_with_stats returned
    entries,                  \* plot.py: the entries calculate_latencies has taken
    enter_events,             \* plot.py: id -> pending Enter
    latencies,                \* plot.py: the intervals, in the order produced
    exit_index,               \* plot.py: exit_index[k]: entry that produced latencies[k]
    returned,                 \* plot.py: the sorted list calculate_latencies returns
    intervals,                \* plot.py: the list handed to calculate_throughput
    throughput,               \* plot.py: what calculate_throughput returned
    dir_exists,               \* whether the directory given to parse_log_files exists
    file_errors,              \* the files whose processing ended in "except Exception"
    average,                  \* what calculate_average_time_between_events returned
    events                    \* what list_available_events returned

logVars ==
    <<files, last_timestamp, last_log_level, request_data, request_ids,
      total_lines_processed, successful_lines_parsed, duplicate_count, stores,
      calls, query, result>>

plotVars == <<entries, enter_events, latencies, exit_index, returned>>

auxVars == <<intervals, throughput, dir_exists, file_errors, average, events>>

vars == <<pc, logVars, plotVars, auxVars>>

LogInit ==
    /\ files = <<>>
    /\ last_timestamp = None
    /\ last_log_level = None
    /\ request_data = EmptyDict
    /\ request_ids = <<>>
    /\ total_lines_processed = 0
    /\ successful_lines_parsed = 0
    /\ duplicate_count = 0
    /\ stores = <<>>
    /\ calls = <<>>
    /\ query = None
    /\ result = EmptyDict

PlotInit ==
    /\ entries = <<>>
    /\ enter_events = EmptyDict
    /\ latencies = <<>>
    /\ exit_index = <<>>
    /\ returned = None

AuxInit ==
    /\ intervals = <<>>
    /\ throughput = None
    /\ dir_exists = TRUE
    /\ file_errors = {}
    /\ average = None
    /\ events = None

\* ------------------------------------------------------------ parse_log_files
Init ==
    /\ pc = "walk"
    /\ LogInit
    /\ PlotInit
    /\ AuxInit

\* OpenFile with the carried context kept from the file before
OpenFile_keep_context ==
    /\ pc = "walk"
    /\ dir_exists
    /\ Len(files) < MaxFiles
    /\ pc' = "file"
    /\ files' = Append(files, <<>>)
    /\ UNCHANGED <<last_timestamp, last_log_level, request_data, request_ids,
                   total_lines_processed, successful_lines_parsed, duplicate_count,
                   stores, calls, query, result, plotVars, auxVars>>

\* process_file(file_path) is entered for the next file of the walk
OpenFile ==
    /\ pc = "walk"
    /\ dir_exists
    /\ Len(files) < MaxFiles
    /\ pc' = "file"
    /\ files' = Append(files, <<>>)
    /\ last_timestamp' = None
    /\ last_log_level' = None
    /\ UNCHANGED <<request_data, request_ids, total_lines_processed,
                   successful_lines_parsed, duplicate_count, stores, calls,
                   query, result, plotVars, auxVars>>

\* the closure state before a line, and the variables set from the one after it
ClosureState ==
    [request_data |-> request_data, request_ids |-> request_ids,
     duplicate_count |-> duplicate_count,
     successful_lines_parsed |-> successful_lines_parsed,
     stores |-> stores, calls |-> calls]

\* one iteration of "for line_num, line in enumerate(file, 1)"
ScanLineOf(line) ==
    /\ pc = "file"
    /\ LET f == Len(files)
           line_num == Len(files[f]) + 1
           cx == process_line([last_timestamp |-> last_timestamp,
                               last_log_level |-> last_log_level,
                               st |-> ClosureState], line, f, line_num)
       IN  /\ files' = [files EXCEPT ![f] = Append(@, line)]
           /\ total_lines_processed' = total_lines_processed + 1
           /\ last_timestamp' = cx.last_timestamp
           /\ last_log_level' = cx.last_log_level
           /\ request_data' = cx.st.request_data
           /\ request_ids' = cx.st.request_ids
           /\ duplicate_count' = cx.st.duplicate_count
           /\ successful_lines_parsed' = cx.st.successful_lines_parsed
           /\ stores' = cx.st.stores
           /\ calls' = cx.st.calls
    /\ UNCHANGED <<pc, query, result, plotVars, auxVars>>

ScanLine ==
    /\ total_lines_processed < MaxLines
    /\ \E line \in LogLines : ScanLineOf(line)

\* the file is exhausted: process_file returns to the walk
EndOfFile ==
    /\ pc = "file"
    /\ pc' = "walk"
    /\ UNCHANGED <<logVars, plotVars, auxVars>>

\* the walk is over: the counters are logged and request_data is returned
Return ==
    /\ pc = "walk"
    /\ pc' = "done"
    /\ UNCHANGED <<logVars, plotVars, auxVars>>

A == <<"A">>

B == <<"B">>

Q == <<"Q">>

\* the event pairs asked for: both orders, one event twice, one never recorded
QueryPairs == {<<A, B>>, <<B, A>>, <<A, A>>, <<A, Q>>}

\* analyze_multiple_event_pairs / get_time_stats_between_events for one pair
Query ==
    /\ pc = "done"
    /\ \E pair \in QueryPairs :
          /\ query' = Some(pair)
          /\ result' = calculate_time_diffs_with_stats(request_data, request_ids,
                                                      pair[1], pair[2])
    /\ pc' = "queried"
    /\ UNCHANGED <<files, last_timestamp, last_log_level, request_data, request_ids,
                   total_lines_processed, successful_lines_parsed, duplicate_count,
                   stores, calls, plotVars, auxVars>>

\* the report loop of __main__: value['count'], value['min'], ... of the result
Report ==
    /\ pc = "queried"
    /\ pc' = IF {"count", "min", "max", "mean", "median"} \subseteq DOMAIN result
             THEN "reported" ELSE "KeyError"
    /\ UNCHANGED <<logVars, plotVars, auxVars>>

Next == OpenFile \/ ScanLine \/ EndOfFile \/ Return \/ Query \/ Report

Spec == Init /\ [][Next]_vars

\* ------------------------------------------------- plot.py: calculate_latencies
\* date(1970, 1, 1).toordinal()
EpochOrdinal == 719163

\* dt.timestamp() * 1000 of a naive datetime, the local time zone being UTC
time_ms(dt) == (toordinal(dt) - EpochOrdinal) * 86400000 + MillisOfDay(dt)

E0 == Fields(1970, 1, 1, 0, 0, 0, 0)

E5 == Fields(1970, 1, 1, 0, 0, 0, 5)

E10 == Fields(1970, 1, 1, 0, 0, 0, 10)

\* the entries parse_log_entries can hand over for one stage: timestamp text of
\* the pattern's shape, step, action and id
Entries ==
    [timestamp : {FormatTs(E0), FormatTs(E5), FormatTs(E10)},
     step : {"Ingress"},
     action : {"Enter", "Exit"},
     id : {"1", "2"}]
    \cup {[timestamp |-> FormatTs(E5), step |-> "Ingress", action |-> "Retry", id |-> "1"]}

DictDel(d, k) == [x \in DOMAIN d \ {k} |-> d[x]]

\* latency_step keeping the pending Enter of an id when a second one arrives
latency_step_first_enter(ls, entry, n) ==
    LET dt == ValueOf(strptime(entry.timestamp))
        t == time_ms(dt)
        id_val == entry.id
    IN  IF entry.action = "Enter"
        THEN IF id_val \in DOMAIN ls.enter_events THEN ls
             ELSE [ls EXCEPT !.enter_events =
                      DictPut(@, id_val, [timestamp |-> t, type |-> entry.step])]
        ELSE IF entry.action = "Exit" /\ id_val \in DOMAIN ls.enter_events
        THEN LET enter_time == ls.enter_events[id_val].timestamp
             IN  [enter_events |-> DictDel(ls.enter_events, id_val),
                  latencies |-> Append(ls.latencies,
                                       [id |-> id_val,
                                        step |-> ls.enter_events[id_val].type,
                                        enter_time |-> enter_time,
                                        exit_time |-> t,
                                        latency |-> t - enter_time]),
                  exit_index |-> Append(ls.exit_index, n)]
        ELSE ls

\* latency_step leaving the slot of the id in place after its Exit
latency_step_no_clear(ls, entry, n) ==
    LET dt == ValueOf(strptime(entry.timestamp))
        t == time_ms(dt)
        id_val == entry.id
    IN  IF entry.action = "Enter"
        THEN [ls EXCEPT !.enter_events =
                 DictPut(@, id_val, [timestamp |-> t, type |-> entry.step])]
        ELSE IF entry.action = "Exit" /\ id_val \in DOMAIN ls.enter_events
        THEN LET enter_time == ls.enter_events[id_val].timestamp
             IN  [enter_events |-> ls.enter_events,
                  latencies |-> Append(ls.latencies,
                                       [id |-> id_val,
                                        step |-> ls.enter_events[id_val].type,
                                        enter_time |-> enter_time,
                                        exit_time |-> t,
                                        latency |-> t - enter_time]),
                  exit_index |-> Append(ls.exit_index, n)]
        ELSE ls

\* The body of "for entry in entries". ls is the loop state: enter_events,
\* latencies, and exit_index, which notes for each interval the position n of the
\* entry that produced it.
latency_step(ls, entry, n) ==
    LET dt == ValueOf(strptime(entry.timestamp))
        t == time_ms(dt)
        id_val == entry.id
    IN  IF entry.action = "Enter"
        THEN [ls EXCEPT !.enter_events =
                 DictPut(@, id_val, [timestamp |-> t, type |-> entry.step])]
        ELSE IF entry.action = "Exit" /\ id_val \in DOMAIN ls.enter_events
        THEN LET enter_time == ls.enter_events[id_val].timestamp
             IN  [enter_events |-> DictDel(ls.enter_events, id_val),
                  latencies |-> Append(ls.latencies,
                                       [id |-> id_val,
                                        step |-> ls.enter_events[id_val].type,
                                        enter_time |-> enter_time,
                                        exit_time |-> t,
                                        latency |-> t - enter_time]),
                  exit_index |-> Append(ls.exit_index, n)]
        ELSE ls

\* sorted(latencies, key=lambda x: x['enter_time']): stable
RECURSIVE InsertByEnter(_, _)
InsertByEnter(s, x) ==
    IF s = <<>> THEN <<x>>
    ELSE IF x.enter_time < Head(s).enter_time THEN <<x>> \o s
    ELSE <<Head(s)>> \o InsertByEnter(Tail(s), x)

RECURSIVE SortedByEnter(_)
SortedByEnter(s) ==
    IF s = <<>> THEN <<>>
    ELSE InsertByEnter(SortedByEnter(SubSeq(s, 1, Len(s) - 1)), s[Len(s)])

InitPlot ==
    /\ pc = "loop"
    /\ LogInit
    /\ PlotInit
    /\ AuxInit

\* one iteration of the loop over entries
TakeEntryOf(entry) ==
    /\ pc = "loop"
    /\ Len(entries) < MaxEntries
    /\ LET ls == latency_step([enter_events |-> enter_events, latencies |-> latencies,
                               exit_index |-> exit_index], entry, Len(entries) + 1)
       IN  /\ enter_events' = ls.enter_events
           /\ latencies' = ls.latencies
           /\ exit_index' = ls.exit_index
    /\ entries' = Append(entries, entry)
    /\ UNCHANGED <<pc, returned, logVars, auxVars>>

TakeEntry == \E entry \in Entries : TakeEntryOf(entry)

\* the loop is over: the intervals are returned sorted by enter time
ReturnLatencies ==
    /\ pc = "loop"
    /\ pc' = "returned"
    /\ returned' = Some(SortedByEnter(latencies))
    /\ UNCHANGED <<entries, enter_events, latencies, exit_index, logVars, auxVars>>

NextPlot == TakeEntry \/ ReturnLatencies

SpecPlot == InitPlot /\ [][NextPlot]_vars

\* ------------------------------------------------ plot.py: calculate_throughput
\* the outcome of a division by zero
ZeroDivisionError == <<0, 0>>

\* n / d as a fraction in lowest terms
Divide(n, d) ==
    IF d = 0 THEN ZeroDivisionError
    ELSE IF d < 0 THEN Rat(-n, -d) ELSE Rat(n, d)

MinEnter(ls) ==
    CHOOSE x \in {ls[i].enter_time : i \in DOMAIN ls} : \A j \in DOMAIN ls : x <= ls[j].enter_time

MaxExit(ls) ==
    CHOOSE x \in {ls[i].exit_time : i \in DOMAIN ls} : \A j \in DOMAIN ls : x >= ls[j].exit_time

\* calculate_throughput testing the span with < 0 only
calculate_throughput_zero_span(ls) ==
    IF ls = <<>> THEN <<0, 1>>
    ELSE LET total_time_ms == MaxExit(ls) - MinEnter(ls)
         IN  IF total_time_ms < 0 THEN <<0, 1>>
             ELSE Divide(Len(ls) * 1000, total_time_ms)

\* requests per second as a fraction; len / (ms / 1000) is len * 1000 / ms
calculate_throughput(ls) ==
    IF ls = <<>> THEN <<0, 1>>
    ELSE LET total_time_ms == MaxExit(ls) - MinEnter(ls)
         IN  IF total_time_ms <= 0 THEN <<0, 1>>
             ELSE Divide(Len(ls) * 1000, total_time_ms)

Interval(enter, exit) ==
    [id |-> "1", step |-> "Ingress", enter_time |-> enter, exit_time |-> exit,
     latency |-> exit - enter]

\* the intervals the lists are made of: three that overlap, one of no duration,
\* one whose Exit is stamped before its Enter
ThroughputIntervals ==
    {Interval(0, 100), Interval(50, 150), Interval(100, 300), Interval(7, 7),
     Interval(100, 50)}

InitThroughput ==
    /\ pc = "intervals"
    /\ LogInit
    /\ PlotInit
    /\ AuxInit

\* the caller's list grows by one interval
AddInterval ==
    /\ pc = "intervals"
    /\ Len(intervals) < MaxIntervals
    /\ \E iv \in ThroughputIntervals : intervals' = Append(intervals, iv)
    /\ UNCHANGED <<pc, throughput, dir_exists, file_errors, average, events,
                   logVars, plotVars>>

\* calculate_throughput(latencies) is called on the list
CallThroughput ==
    /\ pc = "intervals"
    /\ pc' = "throughput"
    /\ throughput' = Some(calculate_throughput(intervals))
    /\ UNCHANGED <<intervals, dir_exists, file_errors, average, events,
                   logVars, plotVars>>

NextThroughput == AddInterval \/ CallThroughput

SpecThroughput == InitThroughput /\ [][NextThroughput]_vars

\* ------------------------------------------- parse_log_files: what can fail
\* the lines of the files of the runs with failing files and of the command
\* line tool: a pair recorded twice, a batch line, a continuation line, event
\* names that share a prefix and names in both cases
CliLines ==
    { FullLine(FormatTs(T1), INFO, <<"A", " ", "r", "1">>),
      FullLine(FormatTs(T2), WARN, <<"B", " ", "r", "1", " ", "r", "2">>),
      <<"A", "\t", "r", "1", " ", "r", "2", "\n">>,
      FullLine(FormatTs(T3), INFO, <<"A", "B", " ", "r", "2">>),
      FullLine(FormatTs(T3), INFO, <<"a", " ", "r", "1">>) }

ScanCliLine ==
    /\ total_lines_processed < MaxLines
    /\ \E line \in CliLines : ScanLineOf(line)

\* parse_log_files(directory) is called; the directory may not exist. os.walk
\* is called without onerror: the error of listing a missing directory is
\* ignored and the walk yields nothing, so no file is opened.
InitParse ==
    /\ pc = "walk"
    /\ LogInit
    /\ PlotInit
    /\ intervals = <<>>
    /\ throughput = None
    /\ dir_exists \in BOOLEAN
    /\ file_errors = {}
    /\ average = None
    /\ events = None

\* ReadFails with the exception leaving parse_log_files
ReadFails_propagates ==
    /\ pc = "file"
    /\ pc' = "raised"
    /\ file_errors' = file_errors \cup {Len(files)}
    /\ UNCHANGED <<logVars, plotVars, intervals, throughput, dir_exists, average,
                   events>>

\* reading the next line raises (the file is not text, the read fails): the
\* exception leaves the loop over the lines and is caught by the "except
\* Exception" of process_file, which logs it and returns to the walk
ReadFails ==
    /\ pc = "file"
    /\ pc' = "walk"
    /\ file_errors' = file_errors \cup {Len(files)}
    /\ UNCHANGED <<logVars, plotVars, intervals, throughput, dir_exists, average,
                   events>>

\* open(file_path) raises: the same handler; no line of the file is read
OpenFails ==
    /\ pc = "walk"
    /\ dir_exists
    /\ Len(files) < MaxFiles
    /\ files' = Append(files, <<>>)
    /\ file_errors' = file_errors \cup {Len(files) + 1}
    /\ UNCHANGED <<pc, last_timestamp, last_log_level, request_data, request_ids,
                   total_lines_processed, successful_lines_parsed, duplicate_count,
                   stores, calls, query, result, plotVars, intervals, throughput,
                   dir_exists, average, events>>

NextParse == OpenFile \/ OpenFails \/ ScanCliLine \/ ReadFails \/ EndOfFile \/ Return

SpecParse == InitParse /\ [][NextParse]_vars

\* ------------------------------------ calculate_average_time_between_events
\* the function testing the mean itself for truth
calculate_average_time_between_events_truthy_mean(data, ids, event1, event2) ==
    LET time_diffs_with_stats ==
            calculate_time_diffs_with_stats(data, ids, event1, event2)
    IN  IF DOMAIN time_diffs_with_stats # {} /\ time_diffs_with_stats.mean # <<0, 1>>
        THEN Some(time_diffs_with_stats.mean)
        ELSE None

\* a dict is true when it is not empty
calculate_average_time_between_events(data, ids, event1, event2) ==
    LET time_diffs_with_stats ==
            calculate_time_diffs_with_stats(data, ids, event1, event2)
    IN  IF DOMAIN time_diffs_with_stats # {} /\ "mean" \in DOMAIN time_diffs_with_stats
        THEN Some(time_diffs_with_stats.mean)
        ELSE None

\* get_average_time_between_events(event1, event2) on the loaded store
Average ==
    /\ pc = "done"
    /\ \E pair \in QueryPairs :
          /\ query' = Some(pair)
          /\ average' = calculate_average_time_between_events(
                            request_data, request_ids, pair[1], pair[2])
    /\ pc' = "averaged"
    /\ UNCHANGED <<files, last_timestamp, last_log_level, request_data, request_ids,
                   total_lines_processed, successful_lines_parsed, duplicate_count,
                   stores, calls, result, plotVars, intervals, throughput,
                   dir_exists, file_errors, events>>

\* ---------------------------------------------------- list_available_events
\* the printable ASCII characters in code point order: 32..95 and 97..126
Printable ==
    <<" ", "!", "\"", "#", "$", "%", "&", "'", "(", ")", "*", "+", ",", "-", ".", "/",
      "0", "1", "2", "3", "4", "5", "6", "7", "8", "9", ":", ";", "<", "=", ">", "?",
      "@", "A", "B", "C", "D", "E", "F", "G", "H", "I", "J", "K", "L", "M", "N", "O",
      "P", "Q", "R", "S", "T", "U", "V", "W", "X", "Y", "Z", "[", "\\", "]", "^", "_">>

PrintableFromA ==
    <<"a", "b", "c", "d", "e", "f", "g", "h", "i", "j", "k", "l", "m", "n", "o",
      "p", "q", "r", "s", "t", "u", "v", "w", "x", "y", "z", "{", "|", "}", "~">>

FirstPrintable == 32

FirstLower == 97

ord(c) ==
    IF c = "\t" THEN 9
    ELSE IF c = "\n" THEN 10
    ELSE IF \E i \in DOMAIN Printable : Printable[i] = c
    THEN FirstPrintable - 1 + (CHOOSE i \in DOMAIN Printable : Printable[i] = c)
    ELSE FirstLower - 1 + (CHOOSE i \in DOMAIN PrintableFromA : PrintableFromA[i] = c)

\* a < b for two str values: the first differing character decides, a proper
\* prefix is smaller
StrLess(a, b) ==
    \/ \E i \in 1..Len(a) :
          /\ i <= Len(b)
          /\ \A j \in 1..(i - 1) : a[j] = b[j]
          /\ ord(a[i]) < ord(b[i])
    \/ /\ Len(a) < Len(b)
       /\ \A j \in 1..Len(a) : a[j] = b[j]

StrMin(S) == CHOOSE x \in S : \A y \in S : x = y \/ StrLess(x, y)

StrMax(S) == CHOOSE x \in S : \A y \in S : x = y \/ StrLess(y, x)

RECURSIVE sorted_descending(_)
sorted_descending(S) ==
    IF S = {} THEN <<>> ELSE <<StrMax(S)>> \o sorted_descending(S \ {StrMax(S)})

RECURSIVE sorted(_)
sorted(S) == IF S = {} THEN <<>> ELSE <<StrMin(S)>> \o sorted(S \ {StrMin(S)})

\* list_available_events returning the names from the greatest down
list_available_events_descending(data) ==
    LET events_set == UNION {DOMAIN data[rid] : rid \in DOMAIN data}
    IN  sorted_descending(events_set)

list_available_events(data) ==
    LET events_set == UNION {DOMAIN data[rid] : rid \in DOMAIN data}
    IN  sorted(events_set)

\* list_events() on the loaded store
ListEvents ==
    /\ pc = "done"
    /\ events' = Some(list_available_events(request_data))
    /\ pc' = "listed"
    /\ UNCHANGED <<logVars, plotVars, intervals, throughput, dir_exists,
                   file_errors, average>>

NextCli == OpenFile \/ ScanCliLine \/ EndOfFile \/ Return \/ Average \/ ListEvents

SpecCli == Init /\ [][NextCli]_vars

\* ===================================================================== claims
\* ---------------------------------------------------------------- the store
StoreKey(r) == <<r.request_id, r.event>>

StoredKeys == {StoreKey(stores[k]) : k \in DOMAIN stores}

\* the (request id, event name) pairs the store holds
HeldKeys ==
    UNION {{<<rid, ev>> : ev \in DOMAIN request_data[rid]} : rid \in DOMAIN request_data}

\* the position of the last store_event call for the pair
LastStoreOf(request_id, event) ==
    CHOOSE k \in DOMAIN stores :
        /\ StoreKey(stores[k]) = <<request_id, event>>
        /\ \A j \in DOMAIN stores : j > k => StoreKey(stores[j]) # <<request_id, event>>

\* C1: the store holds exactly the pairs that were recorded, each with the
\* timestamp of its last occurrence in scan order, and the duplicate counter
\* counts every recording of a pair that was already held (two recordings of one
\* pair with T1 then T2 leave T2 and a counter one higher).
C1_LastWriteWins ==
    /\ StoredKeys = HeldKeys
    /\ \A rid \in DOMAIN request_data : \A ev \in DOMAIN request_data[rid] :
          /\ <<rid, ev>> \in StoredKeys
          /\ request_data[rid][ev] = stores[LastStoreOf(rid, ev)].timestamp
    /\ duplicate_count = Len(stores) - Cardinality(StoredKeys)

\* a pair recorded twice, first with T1 then with T2: T2 is held, one duplicate
C1_Witness ==
    \E i \in DOMAIN stores, j \in DOMAIN stores :
        /\ i < j
        /\ StoreKey(stores[i]) = StoreKey(stores[j])
        /\ stores[i].timestamp = Instant(T1)
        /\ stores[j].timestamp = Instant(T2)
        /\ Cardinality(StoredKeys) = Len(stores) - 1
        /\ request_data[stores[i].request_id][stores[i].event] = Instant(T2)
        /\ duplicate_count = 1

\* ------------------------------------------------------- the carried context
\* the lines of LogLines that are full records with a timestamp that parses
FullRecordLines ==
    {line \in LogLines :
        /\ full_line_match(line) # None
        /\ strptime(ValueOf(full_line_match(line)).timestamp_str) # None}

\* the lines of LogLines that do not match the full-record pattern
ContinuationLines == {line \in LogLines : full_line_match(line) = None}

IsFullRecord(line) == line \in FullRecordLines

IsContinuation(line) == line \in ContinuationLines

\* positions of the full records of file f that precede line n
FullBefore(f, n) == {j \in 1..(n - 1) : IsFullRecord(files[f][j])}

Greatest(S) == CHOOSE x \in S : \A y \in S : y <= x

\* the timestamp and level the text of the full record files[f][j] spells
RecordContext(f, j) ==
    LET g == ValueOf(full_line_match(files[f][j]))
    IN  [timestamp |-> strptime(g.timestamp_str), level |-> Some(g.log_level)]

CallsOf(f, n) == {k \in DOMAIN calls : calls[k].file_no = f /\ calls[k].line_num = n}

\* C2: a continuation line that follows a full record of its file is recorded
\* once, with the timestamp and level of the most recent full record before it,
\* and the carried context after any line is that of the most recent full record
\* of the file, however many continuation lines came since.
C2_ContinuationInherits ==
    /\ \A f \in DOMAIN files : \A n \in DOMAIN files[f] :
          (IsContinuation(files[f][n]) /\ FullBefore(f, n) # {}) =>
              LET r == RecordContext(f, Greatest(FullBefore(f, n)))
              IN  /\ Cardinality(CallsOf(f, n)) = 1
                  /\ \A k \in CallsOf(f, n) :
                        /\ Some(calls[k].timestamp) = r.timestamp
                        /\ Some(calls[k].log_level) = r.level
                        /\ calls[k].event_info = strip(files[f][n])
    /\ (pc = "file" /\ FullBefore(Len(files), Len(files[Len(files)]) + 1) # {}) =>
          LET f == Len(files)
              r == RecordContext(f, Greatest(FullBefore(f, Len(files[f]) + 1)))
          IN  last_timestamp = r.timestamp /\ last_log_level = r.level

\* two full records, then a continuation line recorded with the second one's context
C2_Witness ==
    /\ pc = "file"
    /\ Len(files[Len(files)]) = 3
    /\ LET ls == files[Len(files)]
       IN  /\ IsFullRecord(ls[1]) /\ IsFullRecord(ls[2]) /\ IsContinuation(ls[3])
           /\ RecordContext(Len(files), 1) # RecordContext(Len(files), 2)
    /\ Len(calls) = 3
    /\ Some(calls[3].timestamp) = RecordContext(Len(files), 2).timestamp
    /\ Some(calls[3].log_level) = RecordContext(Len(files), 2).level

\* C3: a line that is no full record and has no full record before it in its own
\* file records nothing, whatever the files before it held; the carried
\* context is empty until the file's first full record.
C3_NoContextNoEvent ==
    /\ \A f \in DOMAIN files : \A n \in DOMAIN files[f] :
          (IsContinuation(files[f][n]) /\ FullBefore(f, n) = {}) => CallsOf(f, n) = {}
    /\ (pc = "file" /\ FullBefore(Len(files), Len(files[Len(files)]) + 1) = {}) =>
          last_timestamp = None /\ last_log_level = None

\* the second file opens with a continuation line, the first held a full record
C3_Witness ==
    /\ Len(files) = 2
    /\ FullBefore(1, Len(files[1]) + 1) # {}
    /\ Len(files[2]) = 1
    /\ IsContinuation(files[2][1])
    /\ split(files[2][1]) # <<>>
    /\ CallsOf(2, 1) = {}
    /\ CallsOf(1, 1) # {}

\* ------------------------------------------------------------ the round trip
\* what valid full-format lines are built from
RtTimes == {Fields(2000, 2, 29, 0, 0, 0, 1), Fields(9999, 12, 31, 23, 59, 59, 999)}

RtLevels == {INFO, <<"W", "_", "2">>}

RtPayloads ==
    { <<"A", " ", "r", "1">>,
      <<" ", "A", " ", " ", "r", "2", " ">>,
      <<"B", " ", "-", " ", "r", "1">>,
      <<" ">> }

\* the line terminator, absent on a last line that has none
RtEnds == {NL, <<>>}

BuildLine(t, level, payload, end) == FormatTs(t) \o Sep \o level \o Sep \o payload \o end

\* every such line, with what it was built from
RtLines ==
    {[t |-> t, level |-> level, payload |-> payload,
      line |-> BuildLine(t, level, payload, end)] :
        t \in RtTimes, level \in RtLevels, payload \in RtPayloads, end \in RtEnds}

\* one loop iteration on a line built from a valid timestamp, a level and a payload
ScanFullLine ==
    /\ total_lines_processed < MaxFullLines
    /\ \E r \in RtLines : ScanLineOf(r.line)

\* the lines of one file
NextRoundTrip == OpenFile \/ ScanFullLine

SpecRoundTrip == Init /\ [][NextRoundTrip]_vars

\* C4: a line built as TIMESTAMP - LEVEL - PAYLOAD from a valid instant, a level
\* of word characters and a non-empty payload is handed to event extraction once,
\* with exactly that instant, that level and that payload, and the instant and
\* level become the carried context.
C4_RoundTrip ==
    \A f \in DOMAIN files : \A n \in DOMAIN files[f] :
        \A r \in RtLines :
            files[f][n] = r.line =>
                /\ Cardinality(CallsOf(f, n)) = 1
                /\ \A k \in CallsOf(f, n) :
                      /\ calls[k].timestamp = Instant(r.t)
                      /\ calls[k].log_level = r.level
                      /\ calls[k].event_info = r.payload
                /\ (f = Len(files) /\ n = Len(files[f]) /\ pc = "file") =>
                      /\ last_timestamp = Some(Instant(r.t))
                      /\ last_log_level = Some(r.level)

\* a line whose payload has blanks at both ends and whose year is 9999 was scanned
C4_Witness ==
    /\ pc = "file"
    /\ Len(calls) = 2
    /\ files[1][1] = BuildLine(Fields(9999, 12, 31, 23, 59, 59, 999), <<"W", "_", "2">>,
                               <<" ", "A", " ", " ", "r", "2", " ">>, <<>>)
    /\ calls[1].event_info = <<" ", "A", " ", " ", "r", "2", " ">>
    /\ calls[1].timestamp.microsecond = 999000
    /\ calls[2].event_info = <<"B", " ", "-", " ", "r", "1">>

\* -------------------------------------------------------------- extraction
\* the pairs the claim gives for a payload of tokens tk
ClaimedPairs(tk) ==
    IF Len(tk) = 2 THEN <<<<tk[1], tk[2]>>>>
    ELSE IF Len(tk) >= 3 THEN [i \in 1..(Len(tk) - 1) |-> <<tk[1], tk[i + 1]>>]
    ELSE <<>>

RECURSIVE ClaimedStores(_)
ClaimedStores(cs) ==
    IF cs = <<>> THEN <<>>
    ELSE LET c == cs[Len(cs)]
             ps == ClaimedPairs(split(c.event_info))
         IN  ClaimedStores(SubSeq(cs, 1, Len(cs) - 1))
             \o [i \in DOMAIN ps |-> [event |-> ps[i][1], request_id |-> ps[i][2],
                                      timestamp |-> c.timestamp]]

\* C5: the pairs stored are, payload after payload, (token[0], token[1]) for a
\* payload of two tokens, (token[0], token[i]) for i = 1..k-1 in token order for
\* one of k >= 3 tokens, and none for a payload of one token or of none; the
\* counter of parsed pairs counts them.
C5_ExtractedPairs ==
    /\ stores = ClaimedStores(calls)
    /\ successful_lines_parsed = Len(stores)

\* payloads of three tokens, of one token and of none were extracted: two pairs
C5_Witness ==
    /\ Len(calls) = 3
    /\ Len(split(calls[1].event_info)) = 3
    /\ Len(split(calls[2].event_info)) = 1
    /\ Len(split(calls[3].event_info)) = 0
    /\ Len(stores) = 2
    /\ stores[1].request_id = <<"r", "1">>
    /\ stores[2].request_id = <<"r", "2">>

\* -------------------------------------------------------------- statistics
QueryEvent1 == ValueOf(query)[1]

QueryEvent2 == ValueOf(query)[2]

\* the request ids whose entry holds both events of the query
QualifyingIds ==
    {rid \in DOMAIN request_data :
        QueryEvent1 \in DOMAIN request_data[rid] /\ QueryEvent2 \in DOMAIN request_data[rid]}

\* milliseconds from T1 to each instant of the scanned lines
OffsetMs(dt) ==
    CASE dt = Instant(T1) -> 0
      [] dt = Instant(T2) -> 200
      [] dt = Instant(T3) -> 1100

ResultIds == IF DOMAIN result = {} THEN <<>> ELSE result.request_ids

ResultDiffs == IF DOMAIN result = {} THEN <<>> ELSE result.time_differences

\* C6: the result lists each request id holding both events once and no other
\* id, and the difference listed for it is timestamp(event_b) - timestamp(event_a),
\* negative when event_b is the earlier one; count counts them all.
C6_DiffsOfQualifying ==
    pc = "queried" =>
        /\ {ResultIds[i] : i \in DOMAIN ResultIds} = QualifyingIds
        /\ Len(ResultIds) = Cardinality(QualifyingIds)
        /\ Len(ResultDiffs) = Len(ResultIds)
        /\ \A i \in DOMAIN ResultIds :
              ResultDiffs[i] = OffsetMs(request_data[ResultIds[i]][QueryEvent2])
                               - OffsetMs(request_data[ResultIds[i]][QueryEvent1])
        /\ DOMAIN result # {} => result.count = Cardinality(QualifyingIds)

\* two requests qualify; for one of them event_b is 900 ms before event_a
C6_Witness ==
    /\ pc = "queried"
    /\ query = Some(<<A, B>>)
    /\ DOMAIN result # {}
    /\ result.count = 2
    /\ result.time_differences = <<200, -900>>
    /\ result.min = -900

\* C7: when no request id holds both events, the result has count = 0 and no
\* min, max, mean, median or stdev.
C7_EmptyResultHasCountZero ==
    (pc = "queried" /\ QualifyingIds = {}) =>
        /\ "count" \in DOMAIN result
        /\ result["count"] = 0
        /\ DOMAIN result \cap {"min", "max", "mean", "median", "stdev"} = {}

\* C8: a non-empty result has a stdev field exactly when count >= 2; with one
\* qualifying request id, count = 1 and min, max, mean and median all equal the
\* single difference.
C8_StdevIffTwoSamples ==
    (pc = "queried" /\ DOMAIN result # {}) =>
        /\ result.count = Len(result.time_differences)
        /\ "stdev" \in DOMAIN result <=> result.count >= 2
        /\ result.count = 1 =>
              LET d == OffsetMs(request_data[ResultIds[1]][QueryEvent2])
                       - OffsetMs(request_data[ResultIds[1]][QueryEvent1])
              IN  /\ result.min = d
                  /\ result.max = d
                  /\ result.mean = <<d, 1>>
                  /\ result.median = <<d, 1>>

\* one request holds both events, 200 ms apart
C8_Witness ==
    /\ pc = "queried"
    /\ query = Some(<<A, B>>)
    /\ DOMAIN result # {}
    /\ result.count = 1
    /\ result.min = 200
    /\ result.mean = <<200, 1>>
    /\ "stdev" \notin DOMAIN result

\* ---------------------------------------------------- Enter/Exit correlation
\* milliseconds each timestamp text of Entries denotes
TextE0 == FormatTs(E0)

TextE5 == FormatTs(E5)

TextE10 == FormatTs(E10)

EntryMs(ts) ==
    CASE ts = TextE0 -> 0
      [] ts = TextE5 -> 5
      [] ts = TextE10 -> 10

\* positions before n of the Enter entries of the id
EntersBefore(id, n) ==
    {i \in 1..(n - 1) : entries[i].action = "Enter" /\ entries[i].id = id}

\* positions before n of the Enter and Exit entries of the id
EventsBefore(id, n) ==
    {i \in 1..(n - 1) : entries[i].action \in {"Enter", "Exit"} /\ entries[i].id = id}

\* the id has a pending Enter when entry n is taken: its latest event is an Enter
PendingAt(id, n) ==
    /\ EventsBefore(id, n) # {}
    /\ entries[Greatest(EventsBefore(id, n))].action = "Enter"

EnterExample ==
    <<[timestamp |-> FormatTs(E0), step |-> "Ingress", action |-> "Enter", id |-> "1"],
      [timestamp |-> FormatTs(E5), step |-> "Ingress", action |-> "Enter", id |-> "1"],
      [timestamp |-> FormatTs(E10), step |-> "Ingress", action |-> "Exit", id |-> "1"]>>

\* C9: every interval pairs an Exit with the most recent Enter of its id before
\* it; Enter(1, 0), Enter(1, 5), Exit(1, 10) leave the one interval (5, 10) of
\* latency 5, and the returned list holds the same intervals.
C9_LatestEnterWins ==
    /\ \A k \in DOMAIN latencies :
          LET n == exit_index[k]
              id == entries[n].id
          IN  /\ entries[n].action = "Exit"
              /\ latencies[k].id = id
              /\ EntersBefore(id, n) # {}
              /\ latencies[k].enter_time =
                    EntryMs(entries[Greatest(EntersBefore(id, n))].timestamp)
              /\ latencies[k].exit_time = EntryMs(entries[n].timestamp)
              /\ latencies[k].latency = latencies[k].exit_time - latencies[k].enter_time
    /\ entries = EnterExample =>
          latencies = <<[id |-> "1", step |-> "Ingress", enter_time |-> 5,
                         exit_time |-> 10, latency |-> 5]>>
    /\ returned # None =>
          /\ Len(ValueOf(returned)) = Len(latencies)
          /\ {ValueOf(returned)[k] : k \in DOMAIN ValueOf(returned)}
                = {latencies[k] : k \in DOMAIN latencies}

\* the example was run and its one interval returned
C9_Witness ==
    /\ entries = EnterExample
    /\ returned = Some(<<[id |-> "1", step |-> "Ingress", enter_time |-> 5,
                          exit_time |-> 10, latency |-> 5]>>)

\* C10: the Exits that produce an interval are exactly those whose id has a
\* pending Enter when they are taken, each once; no two intervals use the same
\* Enter; the pending slots are those of the ids whose latest event is an Enter,
\* so an orphan Exit changes none of them.
C10_ExitNeedsPendingEnter ==
    /\ {exit_index[k] : k \in DOMAIN exit_index}
          = {n \in DOMAIN entries :
                entries[n].action = "Exit" /\ PendingAt(entries[n].id, n)}
    /\ Len(exit_index) = Len(latencies)
    /\ \A k \in DOMAIN exit_index, l \in DOMAIN exit_index :
          k < l =>
             /\ exit_index[k] < exit_index[l]
             /\ entries[exit_index[k]].id = entries[exit_index[l]].id =>
                   Greatest(EntersBefore(entries[exit_index[k]].id, exit_index[k]))
                     < Greatest(EntersBefore(entries[exit_index[l]].id, exit_index[l]))
    /\ DOMAIN enter_events = {id \in {"1", "2"} : PendingAt(id, Len(entries) + 1)}
    /\ \A id \in DOMAIN enter_events :
          enter_events[id].timestamp =
             EntryMs(entries[Greatest(EntersBefore(id, Len(entries) + 1))].timestamp)

\* an Exit of an id never entered was taken while another id was pending, then
\* an Enter and an Exit of that id: one interval, the other slot untouched
C10_Witness ==
    /\ Len(entries) = 4
    /\ entries[1].action = "Enter" /\ entries[1].id = "1"
    /\ entries[2].action = "Exit" /\ entries[2].id = "2"
    /\ entries[3].action = "Enter" /\ entries[3].id = "2"
    /\ entries[4].action = "Exit" /\ entries[4].id = "2"
    /\ exit_index = <<4>>
    /\ DOMAIN enter_events = {"1"}

\* ---------------------------------------------------------------- throughput
ThroughputExample == <<Interval(0, 100), Interval(50, 150), Interval(100, 300)>>

\* the latest exit minus the earliest enter of the list, in milliseconds
SpanMs ==
    LET exits == {intervals[i].exit_time : i \in DOMAIN intervals}
        enters == {intervals[i].enter_time : i \in DOMAIN intervals}
    IN  Greatest(exits) - (CHOOSE x \in enters : \A y \in enters : x <= y)

\* C11: calculate_throughput returns 0 for an empty list and for a span <= 0,
\* and count / span otherwise (per second, the span being in milliseconds); it
\* never divides by zero; for (0,100), (50,150), (100,300) it returns 3 / 0.3.
C11_ThroughputGuarded ==
    pc = "throughput" =>
        /\ throughput # Some(ZeroDivisionError)
        /\ IF intervals = <<>> THEN throughput = Some(<<0, 1>>)
           ELSE IF SpanMs <= 0 THEN throughput = Some(<<0, 1>>)
           ELSE /\ ValueOf(throughput)[2] > 0
                /\ ValueOf(throughput)[1] * SpanMs
                      = Len(intervals) * 1000 * ValueOf(throughput)[2]
        /\ intervals = ThroughputExample => throughput = Some(<<10, 1>>)

\* the example list was measured: 10 requests per second
C11_Witness ==
    /\ pc = "throughput"
    /\ intervals = ThroughputExample
    /\ throughput = Some(<<10, 1>>)

\* ------------------------------------------------------- a missing directory
\* C12: parse_log_files on a directory that does not exist raises to its caller
\* and returns no store.
C12_MissingDirectoryRaises == ~dir_exists => pc # "done"

\* ------------------------------------------------------- the order of the files
\* parse_log_files as a function of the files in the order they are processed
EmptyStore ==
    [request_data |-> EmptyDict, request_ids |-> <<>>, duplicate_count |-> 0,
     successful_lines_parsed |-> 0, stores |-> <<>>, calls |-> <<>>]

RECURSIVE RunLines(_, _, _, _)
RunLines(cx, lines, f, n) ==
    IF n > Len(lines) THEN cx
    ELSE RunLines(process_line(cx, lines[n], f, n), lines, f, n + 1)

RECURSIVE RunFiles(_, _, _)
RunFiles(st, fs, f) ==
    IF f > Len(fs) THEN st
    ELSE RunFiles(RunLines([last_timestamp |-> None, last_log_level |-> None,
                            st |-> st], fs[f], f, 1).st,
                  fs, f + 1)

StoreOf(fs) == RunFiles(EmptyStore, fs, 1).request_data

\* the same files in every order a listing can give them
Orders(fs) ==
    IF fs = <<>> THEN {<<>>}
    ELSE {[i \in DOMAIN fs |-> fs[p[i]]] : p \in Permutations(DOMAIN fs)}

\* C13: the store returned does not depend on the order in which the files
\* were listed: every order of the same files gives the same store, timestamps
\* of pairs recorded in two files included.
C13_OrderIndependent ==
    pc = "done" => \A fs \in Orders(files) : StoreOf(fs) = request_data

\* ------------------------------------------------------- a file that fails
RECURSIVE LinesRead(_)
LinesRead(f) == IF f = 0 THEN 0 ELSE Len(files[f]) + LinesRead(f - 1)

\* C14: a failure of open or of a read ends that file only: the exception never
\* leaves parse_log_files, control is back in the walk, where the remaining
\* files are opened and scanned, and the store returned is the one built from
\* every line read of every file, those after the failed file included.
C14_FileFailureNeverAborts ==
    /\ pc \in {"walk", "file", "done"}
    /\ \A f \in file_errors : f < Len(files) \/ pc \in {"walk", "done"}
    /\ total_lines_processed = LinesRead(Len(files))
    /\ pc = "done" => request_data = StoreOf(files)
    /\ \A k \in DOMAIN calls : calls[k].file_no \in DOMAIN files

\* the first file failed after a line that recorded an event, the second was
\* scanned to its end and recorded one too, and the store was returned
C14_Witness ==
    /\ pc = "done"
    /\ Len(files) = 2
    /\ file_errors = {1}
    /\ \E k \in DOMAIN calls : calls[k].file_no = 1
    /\ \E k \in DOMAIN calls : calls[k].file_no = 2 /\ calls[k].line_num = 2
    /\ request_data = StoreOf(files)
    /\ Cardinality(HeldKeys) >= 2

\* ------------------------------------------------------------- the average
\* event_b - event_a of one request id, in milliseconds, from the table of offsets
KnownDiff(rid) ==
    OffsetMs(request_data[rid][QueryEvent2]) - OffsetMs(request_data[rid][QueryEvent1])

RECURSIVE SumKnownDiff(_)
SumKnownDiff(S) ==
    IF S = {} THEN 0
    ELSE LET x == CHOOSE y \in S : TRUE IN KnownDiff(x) + SumKnownDiff(S \ {x})

\* C15: the average is None exactly when no request id holds both events;
\* otherwise it is the mean of the differences, a mean of 0 included: a zero
\* is returned as 0 and never as None.
C15_NoneIffNoQualifying ==
    pc = "averaged" =>
        /\ average = None <=> QualifyingIds = {}
        /\ QualifyingIds # {} =>
              /\ ValueOf(average)[2] > 0
              /\ ValueOf(average)[1] * Cardinality(QualifyingIds)
                    = SumKnownDiff(QualifyingIds) * ValueOf(average)[2]

\* two requests hold A and B with equal timestamps: the mean is 0 and is returned
C15_Witness ==
    /\ pc = "averaged"
    /\ query = Some(<<A, B>>)
    /\ Cardinality(QualifyingIds) = 2
    /\ \A rid \in QualifyingIds : request_data[rid][A] = request_data[rid][B]
    /\ average = Some(<<0, 1>>)

\* ------------------------------------------------------------ the event names
\* the place of each event name of the scanned lines in ascending str order
EventRank(e) ==
    CASE e = <<"A">> -> 1
      [] e = <<"A", "B">> -> 2
      [] e = <<"B">> -> 3
      [] e = <<"a">> -> 4

RecordedEvents == {stores[k].event : k \in DOMAIN stores}

\* C16: list_available_events returns exactly the event names ever recorded,
\* each once, in ascending order; an overwritten duplicate keeps its name
\* listed and no other name appears.
C16_SortedRecordedEvents ==
    pc = "listed" =>
        LET l == ValueOf(events)
        IN  /\ {l[i] : i \in DOMAIN l} = RecordedEvents
            /\ Len(l) = Cardinality(RecordedEvents)
            /\ \A i \in DOMAIN l : \A j \in DOMAIN l :
                  i < j => EventRank(l[i]) < EventRank(l[j])

\* two names recorded in an order other than the ascending one, one of them
\* twice for the same request id
C16_Witness ==
    /\ pc = "listed"
    /\ Len(ValueOf(events)) = 2
    /\ duplicate_count >= 1
    /\ stores[1].event # ValueOf(events)[1]

\* ------------------------------------------- a timestamp that does not parse
\* the lines of LogLines that match the full-record pattern and spell no date
BadTimestampLines ==
    {line \in LogLines :
        /\ full_line_match(line) # None
        /\ strptime(ValueOf(full_line_match(line)).timestamp_str) = None}

IsBadTimestamp(line) == line \in BadTimestampLines

\* no line with a bad timestamp has made a call of process_events, and a
\* continuation line right after one was handled with the context of the last
\* valid full record before it, or dropped when there is none
BadTimestampRecordsNothing ==
    \A f \in DOMAIN files : \A n \in DOMAIN files[f] :
        /\ IsBadTimestamp(files[f][n]) => CallsOf(f, n) = {}
        /\ (n > 1 /\ IsBadTimestamp(files[f][n - 1]) /\ IsContinuation(files[f][n])) =>
              IF FullBefore(f, n) = {} THEN CallsOf(f, n) = {}
              ELSE LET r == RecordContext(f, Greatest(FullBefore(f, n)))
                   IN  /\ Cardinality(CallsOf(f, n)) = 1
                       /\ \A k \in CallsOf(f, n) :
                             /\ Some(calls[k].timestamp) = r.timestamp
                             /\ Some(calls[k].log_level) = r.level

\* the step that reads a line with a bad timestamp changes nothing but the
\* count of lines read, and stays in the loop over the lines of the file
BadTimestampStep ==
    (/\ pc = "file"
     /\ Len(files') = Len(files)
     /\ Len(files'[Len(files)]) = Len(files[Len(files)]) + 1
     /\ IsBadTimestamp(files'[Len(files)][Len(files'[Len(files)])]))
    => /\ pc' = "file"
       /\ last_timestamp' = last_timestamp
       /\ last_log_level' = last_log_level
       /\ request_data' = request_data
       /\ stores' = stores
       /\ calls' = calls
       /\ duplicate_count' = duplicate_count
       /\ successful_lines_parsed' = successful_lines_parsed

\* C17: a line of the full-record shape whose timestamp is no date is skipped:
\* it records nothing, the carried timestamp and level stay as they were, the
\* scan stays in the same file, and a continuation line after it gets the
\* context of the earlier valid record or is dropped when there is none.
C17_BadTimestampSkipped == []BadTimestampRecordsNothing /\ [][BadTimestampStep]_vars

\* a valid record, a line with month 13, then a continuation line recorded with
\* the timestamp of the first line
C17_Witness ==
    /\ pc = "file"
    /\ Len(files) = 1
    /\ Len(files[1]) = 3
    /\ IsFullRecord(files[1][1])
    /\ IsBadTimestamp(files[1][2])
    /\ IsContinuation(files[1][3])
    /\ Len(calls) = 2
    /\ calls[2].line_num = 3
    /\ Some(calls[2].timestamp) = RecordContext(1, 1).timestamp
    /\ last_timestamp = RecordContext(1, 1).timestamp

\* ---------------------------------------------------------------- the counters
CountersAgree ==
    /\ successful_lines_parsed = Len(stores)
    /\ successful_lines_parsed = Cardinality(HeldKeys) + duplicate_count

\* C18: after every line, the "successfully parsed" counter is the number of
\* pairs recorded so far (calls of store_event), not the number of lines, and
\* equals the distinct pairs held in the store plus the duplicate counter; the
\* duplicate counter never decreases.
C18_CounterInvariant ==
    []CountersAgree /\ [][duplicate_count' >= duplicate_count]_vars

\* three lines recorded five pairs, one of them a duplicate
C18_Witness ==
    /\ total_lines_processed = 3
    /\ successful_lines_parsed = 5
    /\ Len(stores) = 5
    /\ duplicate_count = 1
    /\ Cardinality(HeldKeys) = 4

====
